---------------------------- MODULE Spec2Model ----------------------------
(***************************************************************************)
(* Model of the nearest-neighbour matcher of the notebook                  *)
(* L3/06_nearest-neighbor-faster.ipynb: get_nearest and nearest_neighbor.  *)
(*                                                                         *)
(* Numbers.  Coordinates are whole degrees on the 60-degree grid, where    *)
(* every sine and cosine the haversine formula needs is rational.  Angles  *)
(* in radians are fixed-point integers in micro-radians.  The reduced      *)
(* haversine distance  sin^2 + cos*cos*sin^2  (a number in [0,1]) is kept  *)
(* in sixteenths, which is exact on the grid; the angular distance         *)
(* 2*asin(sqrt(h)) is read from a table in micro-radians.                  *)
(*                                                                         *)
(* Tables.  A GeoDataFrame is a sequence of rows, a row a record with its  *)
(* index label, its geometry (a point x = longitude, y = latitude) and one *)
(* attribute column, id.  Positions are 0-based as in Python; row p of a   *)
(* table df is df[p + 1].                                                  *)
(***************************************************************************)
EXTENDS Integers, Sequences, FiniteSets, TLC

VARIABLES
    fn,             \* the function the caller invokes
    left_gdf,       \* nearest_neighbor: the query table
    right_gdf,      \* nearest_neighbor: the candidate table
    return_dist,    \* nearest_neighbor: the flag
    src_points,     \* get_nearest: array of (radian, radian) pairs
    candidates,     \* get_nearest: array of (radian, radian) pairs
    k_neighbors,    \* get_nearest: k
    pc,             \* "call" before the function runs, "done" after it,
                    \* "joined" after the join of its result
    err,            \* "none", or the exception the call raised
    built,          \* a BallTree was constructed during the call
    closest,        \* get_nearest: returned indices
    closest_dist,   \* get_nearest: returned angular distances
    closest_points, \* nearest_neighbor: returned table
    prev,           \* <<>> or <<outcome of the previous identical call>>
    joined,         \* left_gdf.join(closest_points), <<>> before the join
    earlier,        \* <<>> or <<the candidates and the error of a call with
                    \* other arguments made in between>>
    leaf            \* the leaf size of the tree the call builds

vars == <<fn, left_gdf, right_gdf, return_dist, src_points, candidates,
          k_neighbors, pc, err, built, closest, closest_dist,
          closest_points, prev, joined, earlier, leaf>>

----------------------------------------------------------------------------
(* Bounds of the model *)

MaxQ == 2
MaxC == 2

(* Program constants *)

\* np.pi in micro-radians
PiMicro == 3141593
\* earth_radius = 6371000  # meters
earth_radius == 6371000
\* BallTree(candidates, leaf_size=15, ...)
leaf_size == 15

\* np.inf for reduced distances, which are sixteenths in 0..16
Inf == 16 + 1

----------------------------------------------------------------------------
(* Fixed-point arithmetic *)

\* a function on 1..n as the sequence of its values
Array1(f) == SubSeq(f, 1, Len(f))

\* a * b / 10^6 for a in micro-units, without leaving 32 bits
FxMul(a, b) ==
    (a \div 1000) * (b \div 1000) + ((a % 1000) * (b \div 1000)) \div 1000

\* lambda geom: (geom.x * np.pi / 180, geom.y * np.pi / 180), one component
Radians(deg) == (deg * PiMicro) \div 180

\* the whole degree nearest to an angle in micro-radians
NearestDegree(r) == (r * 180 + PiMicro \div 2) \div PiMicro

\* 2 * cos(r); exact on the 60-degree grid
Cos2(r) ==
    LET d == NearestDegree(r) % 360
    IN  CASE d = 0   -> 2
          [] d = 60  -> 1
          [] d = 120 -> -1
          [] d = 180 -> -2
          [] d = 240 -> -1
          [] d = 300 -> 1

\* 4 * sin(r / 2)^2 = 2 - 2 * cos(r)
Sin2Half4(r) == 2 - Cos2(r)

\* 2 * asin(sqrt(h / 16)) in micro-radians, h in 0..16
ArcTable ==
    <<0, 505360, 722734, 895664, 1047197, 1186399, 1318116, 1445468,
      1570796, 1696124, 1823476, 1955193, 2094395, 2245927, 2418858,
      2636232, 3141592>>

----------------------------------------------------------------------------
(* sklearn.neighbors.BallTree with metric='haversine', as the notebook     *)
(* uses it.  The metric reads component 0 of a point as the latitude and   *)
(* component 1 as the longitude.                                           *)

\* reduced haversine distance of two points of the arrays, in sixteenths:
\* sin(dlat/2)^2 + cos(lat1) * cos(lat2) * sin(dlon/2)^2
haversine_rdist(x1, x2) ==
    4 * Sin2Half4(x1[1] - x2[1])
        + Cos2(x1[1]) * Cos2(x2[1]) * Sin2Half4(x1[2] - x2[2])

\* variant: an angle past the quarter turn is counted back from the half
\* turn
rdist_to_dist_signed(h) ==
    IF h > 8 THEN ArcTable[h + 1] - PiMicro ELSE ArcTable[h + 1]

\* 2 * asin(sqrt(rdist)), in micro-radians
rdist_to_dist(h) == ArcTable[h + 1]

\* Number of nodes of the tree over n points: 2^n_levels - 1 with
\* n_levels = floor(log2(max(1, (n - 1) / leaf_size))) + 1.  The model
\* covers the trees of one node (n <= 2 * leaf_size), whose query is a scan
\* of the node's points in the order of idx_array.
single_node(n) == n - 1 < 2 * leaf_size

\* variant: an empty array is taken and a tree of no points is made
BallTree_accepts_empty(cands) ==
    [err |-> "none",
     data |-> cands,
     is_leaf |-> single_node(Len(cands)),
     idx_array |-> [i \in 1..Len(cands) |-> i - 1]]

\* variant: the order of the points in the node depends on whether a tree
\* was built before
BallTree_order_by_history(cands) ==
    IF Len(cands) = 0
    THEN [err |-> "ValueError"]
    ELSE [err |-> "none",
          data |-> cands,
          is_leaf |-> single_node(Len(cands)),
          idx_array |-> [i \in 1..Len(cands) |->
                            IF prev = <<>> THEN i - 1 ELSE Len(cands) - i]]

\* variant: the node holds the points in reverse order
BallTree_reversed(cands) ==
    IF Len(cands) = 0
    THEN [err |-> "ValueError"]
    ELSE [err |-> "none",
          data |-> [i \in 1..Len(cands) |-> cands[Len(cands) + 1 - i]],
          is_leaf |-> single_node(Len(cands)),
          idx_array |-> [i \in 1..Len(cands) |-> i - 1]]

\* variant: the node holds the first two points only
BallTree_two_points(cands) ==
    IF Len(cands) = 0
    THEN [err |-> "ValueError"]
    ELSE LET kept == IF Len(cands) > 2 THEN SubSeq(cands, 1, 2) ELSE cands
         IN  [err |-> "none",
              data |-> kept,
              is_leaf |-> single_node(Len(kept)),
              idx_array |-> [i \in 1..Len(kept) |-> i - 1]]

\* variant: the tree of an earlier call is kept and used again
BallTree_cached(cands) ==
    IF earlier # <<>> /\ Len(earlier[1].candidates) > 0
    THEN [err |-> "none",
          data |-> earlier[1].candidates,
          is_leaf |-> single_node(Len(earlier[1].candidates)),
          idx_array |-> [i \in 1..Len(earlier[1].candidates) |-> i - 1]]
    ELSE IF Len(cands) = 0
    THEN [err |-> "ValueError"]
    ELSE [err |-> "none",
          data |-> cands,
          is_leaf |-> single_node(Len(cands)),
          idx_array |-> [i \in 1..Len(cands) |-> i - 1]]

\* BallTree(candidates, leaf_size=15, metric='haversine')
BallTree(cands) ==
    IF Len(cands) = 0
    THEN [err |-> "ValueError"]
    ELSE [err |-> "none",
          data |-> cands,
          is_leaf |-> single_node(Len(cands)),
          idx_array |-> [i \in 1..Len(cands) |-> i - 1]]

\* NeighborsHeap: a row is a max-heap of <<reduced distance, index>> pairs
RECURSIVE new_heap(_)
new_heap(k) == IF k = 0 THEN <<>> ELSE Append(new_heap(k - 1), <<Inf, 0>>)

RECURSIVE sift_down(_, _, _, _)
sift_down(h, i, val, i_val) ==
    LET size == Len(h)
        ic1 == 2 * i + 1
        ic2 == ic1 + 1
        D(j) == h[j + 1][1]
        i_swap ==
            IF ic1 >= size THEN -1
            ELSE IF ic2 >= size
                 THEN (IF D(ic1) > val THEN ic1 ELSE -1)
            ELSE IF D(ic1) >= D(ic2)
                 THEN (IF val < D(ic1) THEN ic1 ELSE -1)
            ELSE (IF val < D(ic2) THEN ic2 ELSE -1)
    IN  IF i_swap = -1
        THEN [h EXCEPT ![i + 1] = <<val, i_val>>]
        ELSE sift_down([h EXCEPT ![i + 1] = h[i_swap + 1]], i_swap, val, i_val)

\* variant: on a call after the first, a value equal to the largest kept
\* replaces it
heap_push_ties_by_history(h, val, i_val) ==
    IF val > h[1][1] \/ (val = h[1][1] /\ prev = <<>>)
    THEN h
    ELSE sift_down(h, 0, val, i_val)

\* variant: once a row is full nothing replaces its entries
heap_push_keep_first(h, val, i_val) ==
    IF h[1][1] < Inf THEN h ELSE sift_down(h, 0, val, i_val)

\* NeighborsHeap.push: a value not below the largest kept is dropped
heap_push(h, val, i_val) ==
    IF val >= h[1][1] THEN h ELSE sift_down(h, 0, val, i_val)

dual_swap(h, i, j) == [h EXCEPT ![i + 1] = h[j + 1], ![j + 1] = h[i + 1]]

swap_if_greater(h, i, j) ==
    IF h[i + 1][1] > h[j + 1][1] THEN dual_swap(h, i, j) ELSE h

RECURSIVE partition(_, _, _, _)
\* for i in range(size - 1): if dist[i] < pivot_val: swap(i, store_idx)
partition(h, i, store_idx, pivot_val) ==
    IF i >= Len(h) - 1
    THEN [h |-> dual_swap(h, store_idx, Len(h) - 1), pivot_idx |-> store_idx]
    ELSE IF h[i + 1][1] < pivot_val
         THEN partition(dual_swap(h, i, store_idx), i + 1, store_idx + 1,
                        pivot_val)
         ELSE partition(h, i + 1, store_idx, pivot_val)

\* the median of three as the pivot, moved to the last place
median_of_three(h) ==
    LET size == Len(h)
        mid  == size \div 2
        h1   == swap_if_greater(h, 0, size - 1)
    IN  IF h1[size][1] > h1[mid + 1][1]
        THEN swap_if_greater(dual_swap(h1, size - 1, mid), 0, size - 1)
        ELSE h1

RECURSIVE simultaneous_sort(_)

\* recursively sort each side of the pivot
sort_sides(h, pivot_idx) ==
    (IF pivot_idx > 1
     THEN simultaneous_sort(SubSeq(h, 1, pivot_idx))
     ELSE SubSeq(h, 1, pivot_idx))
    \o <<h[pivot_idx + 1]>>
    \o (IF pivot_idx + 2 < Len(h)
        THEN simultaneous_sort(SubSeq(h, pivot_idx + 2, Len(h)))
        ELSE SubSeq(h, pivot_idx + 2, Len(h)))

quicksort(h) ==
    LET p == partition(h, 0, 0, h[Len(h)][1])
    IN  sort_sides(p.h, p.pivot_idx)

\* sorts a heap row by distance: explicit up to three entries, then a
\* quicksort with the median of three as the pivot
simultaneous_sort(h) ==
    IF Len(h) <= 1 THEN h
    ELSE IF Len(h) = 2 THEN swap_if_greater(h, 0, 1)
    ELSE IF Len(h) = 3
         THEN swap_if_greater(
                  swap_if_greater(swap_if_greater(h, 0, 1), 1, 2), 0, 1)
    ELSE quicksort(median_of_three(h))

RECURSIVE scan_leaf_one_based(_, _, _, _)
\* variant: the heap is given the position counted from one
scan_leaf_one_based(tree, pt, h, i) ==
    IF i > Len(tree.idx_array) THEN h
    ELSE LET idx == tree.idx_array[i]
         IN  scan_leaf_one_based(
                 tree, pt,
                 heap_push(h, haversine_rdist(pt, tree.data[idx + 1]), idx + 1),
                 i + 1)

RECURSIVE scan_leaf(_, _, _, _)
\* the query of one point in a one-node tree: every point of the node, in
\* the order of idx_array, is offered to the heap
scan_leaf(tree, pt, h, i) ==
    IF i > Len(tree.idx_array) THEN h
    ELSE LET idx == tree.idx_array[i]
         IN  scan_leaf(tree, pt,
                       heap_push(h, haversine_rdist(pt, tree.data[idx + 1]),
                                 idx),
                       i + 1)

\* variant: the row is returned as the heap holds it, sort_results=False
query_single_unsorted(tree, pt, k) ==
    IF k = 0 THEN <<>> ELSE scan_leaf(tree, pt, new_heap(k), 1)

\* a heap of no entries takes no point: the row stays empty
query_single(tree, pt, k) ==
    IF k = 0 THEN <<>>
    ELSE simultaneous_sort(scan_leaf(tree, pt, new_heap(k), 1))

\* variant: a k above the number of points is lowered to it
query_clamped(tree, X, k) ==
    IF Len(X) = 0 THEN [err |-> "ValueError"]
    ELSE IF k < 0 THEN [err |-> "ValueError"]
    ELSE LET kk   == IF k > Len(tree.data) THEN Len(tree.data) ELSE k
             rows == Array1([i \in 1..Len(X) |-> query_single(tree, X[i], kk)])
         IN  [err |-> "none",
              distances |->
                  [i \in 1..Len(X) |->
                      [j \in 1..kk |-> rdist_to_dist(rows[i][j][1])]],
              indices |->
                  [i \in 1..Len(X) |-> [j \in 1..kk |-> rows[i][j][2]]]]

\* variant: the heap row of the first point is not cleared for the points
\* after it
query_shared_heap(tree, X, k) ==
    IF Len(X) = 0 THEN [err |-> "ValueError"]
    ELSE IF k > Len(tree.data) THEN [err |-> "ValueError"]
    ELSE IF k < 0 THEN [err |-> "ValueError"]
    ELSE LET first == IF k = 0 THEN <<>>
                      ELSE scan_leaf(tree, X[1], new_heap(k), 1)
             rows == Array1([i \in 1..Len(X) |->
                         IF k = 0 THEN <<>>
                         ELSE simultaneous_sort(
                                  IF i = 1 THEN first
                                  ELSE scan_leaf(tree, X[i], first, 1))])
         IN  [err |-> "none",
              distances |->
                  [i \in 1..Len(X) |->
                      [j \in 1..k |-> rdist_to_dist(rows[i][j][1])]],
              indices |->
                  [i \in 1..Len(X) |-> [j \in 1..k |-> rows[i][j][2]]]]

\* tree.query(X, k): (distances, indices), each of shape (len(X), k)
query(tree, X, k) ==
    IF Len(X) = 0 THEN [err |-> "ValueError"]
    ELSE IF k > Len(tree.data) THEN [err |-> "ValueError"]
    ELSE IF k < 0 THEN [err |-> "ValueError"]
    ELSE LET rows == Array1([i \in 1..Len(X) |-> query_single(tree, X[i], k)])
         IN  [err |-> "none",
              distances |->
                  [i \in 1..Len(X) |->
                      [j \in 1..k |-> rdist_to_dist(rows[i][j][1])]],
              indices |->
                  [i \in 1..Len(X) |-> [j \in 1..k |-> rows[i][j][2]]]]

\* numpy transpose of an array of shape (n, k) with n >= 1
transpose(m) ==
    Array1([j \in 1..Len(m[1]) |-> Array1([i \in 1..Len(m) |-> m[i][j]])])

----------------------------------------------------------------------------
(* pandas / geopandas operations on tables *)

\* df.reset_index(drop=True): the labels become 0..n-1
reset_index(df) ==
    Array1([i \in 1..Len(df) |-> [df[i] EXCEPT !.label = i - 1]])

RECURSIVE rows_labelled(_, _, _)
\* the rows of df, from row i on, whose label is lab, in table order
rows_labelled(df, lab, i) ==
    IF i > Len(df) THEN <<>>
    ELSE (IF df[i].label = lab THEN <<df[i]>> ELSE <<>>)
         \o rows_labelled(df, lab, i + 1)

RECURSIVE loc_rows(_, _, _)
loc_rows(df, labels, i) ==
    IF i > Len(labels) THEN <<>>
    ELSE rows_labelled(df, labels[i], 1) \o loc_rows(df, labels, i + 1)

\* variant: a selection by membership, df[df.index.isin(labels)], which
\* keeps the order of the table
loc_isin(df, labels) ==
    [err |-> "none",
     rows |-> SelectSeq(df, LAMBDA r :
                 \E i \in 1..Len(labels) : labels[i] = r.label)]

\* df.loc[labels]: label-based selection; every row carrying a requested
\* label is returned, and a label no row carries is a KeyError
loc(df, labels) ==
    IF \E i \in 1..Len(labels) : \A j \in 1..Len(df) : df[j].label # labels[i]
    THEN [err |-> "KeyError"]
    ELSE [err |-> "none", rows |-> loc_rows(df, labels, 1)]

\* ndarray.shape of np.array(rows) for a list of equally long tuples: an
\* empty list makes an array of one dimension and length 0
shape(a) == IF Len(a) = 0 THEN <<0>> ELSE <<Len(a), Len(a[1])>>

\* variant: the pair is (latitude, longitude), (geom.y, geom.x)
to_radians_latlon(df) ==
    Array1([i \in 1..Len(df) |->
               <<Radians(df[i].geom.y), Radians(df[i].geom.x)>>])

\* variant: the second component is the last coordinate of the point,
\* geom.coords[0][-1]
to_radians_last(df) ==
    Array1([i \in 1..Len(df) |->
               <<Radians(df[i].geom.x),
                 Radians(IF "z" \in DOMAIN df[i].geom
                         THEN df[i].geom.z ELSE df[i].geom.y)>>])

\* np.array(gdf[geom_col].apply(lambda geom: (geom.x * np.pi / 180,
\*                                            geom.y * np.pi / 180)).to_list())
to_radians(df) ==
    Array1([i \in 1..Len(df) |->
               <<Radians(df[i].geom.x), Radians(df[i].geom.y)>>])

\* closest_points['distance'] = dist * earth_radius
set_distance(df, dist) ==
    IF Len(df) # Len(dist)
    THEN [err |-> "ValueError"]
    ELSE [err |-> "none",
          rows |-> [i \in 1..Len(df) |->
                       [label |-> df[i].label, geom |-> df[i].geom,
                        id |-> df[i].id,
                        distance |-> FxMul(dist[i], earth_radius)]]]

\* the columns of a row, without its index label
Content(r) == [r EXCEPT !.label = 0]

RECURSIVE join_rows(_, _, _)
\* the rows left row i and the rows after it give: one for every row of
\* other carrying its label, or one without a partner
join_rows(left, other, i) ==
    IF i > Len(left) THEN <<>>
    ELSE LET partners == rows_labelled(other, left[i].label, 1)
             joined_row(o) == [label |-> left[i].label, geom |-> left[i].geom,
                               id |-> left[i].id, closest_stop |-> o]
         IN  (IF partners = <<>> THEN <<joined_row("NaN")>>
              ELSE [j \in 1..Len(partners) |->
                       joined_row(Content(partners[j]))])
             \o join_rows(left, other, i + 1)

\* buildings.join(closest_stops): a left join on the index labels; the
\* columns of other (renamed so that none collides) are attached to the
\* left rows
join(left, other) == join_rows(left, other, 1)

----------------------------------------------------------------------------
(* The notebook's two functions.  Each returns a record: err is "none" or  *)
(* the exception raised, built tells whether the BallTree was constructed. *)

Raise(e, b) ==
    [err |-> e, built |-> b, closest |-> <<>>, closest_dist |-> <<>>,
     closest_points |-> <<>>]

\* variant: the last of the k rows is taken, indices[-1]
get_nearest_last(src, cands, k) ==
    LET tree == BallTree(cands)
    IN  IF tree.err # "none" THEN Raise(tree.err, FALSE)
        ELSE
        LET q == query(tree, src, k)
        IN  IF q.err # "none" THEN Raise(q.err, TRUE)
            ELSE
            LET distances == transpose(q.distances)
                indices   == transpose(q.indices)
            IN  IF Len(indices) = 0 THEN Raise("IndexError", TRUE)
                ELSE [err |-> "none", built |-> TRUE,
                      closest |-> indices[Len(indices)],
                      closest_dist |-> distances[Len(distances)],
                      closest_points |-> <<>>]

\* variant: the number of neighbours is checked against the candidates
\* before the tree is made
get_nearest_checks_first(src, cands, k) ==
    IF k < 1 \/ k > Len(cands) THEN Raise("ValueError", FALSE)
    ELSE
    LET tree == BallTree(cands)
    IN  IF tree.err # "none" THEN Raise(tree.err, FALSE)
        ELSE
        LET q == query(tree, src, k)
        IN  IF q.err # "none" THEN Raise(q.err, TRUE)
            ELSE [err |-> "none", built |-> TRUE,
                  closest |-> transpose(q.indices)[1],
                  closest_dist |-> transpose(q.distances)[1],
                  closest_points |-> <<>>]

\* get_nearest(src_points, candidates, k_neighbors)
get_nearest(src, cands, k) ==
    LET tree == BallTree(cands)
    IN  IF tree.err # "none" THEN Raise(tree.err, FALSE)
        ELSE
        LET q == query(tree, src, k)
        IN  IF q.err # "none" THEN Raise(q.err, TRUE)
            ELSE
            LET distances == transpose(q.distances)
                indices   == transpose(q.indices)
            IN  IF Len(indices) = 0 THEN Raise("IndexError", TRUE)
                ELSE [err |-> "none", built |-> TRUE,
                      closest |-> indices[1],
                      closest_dist |-> distances[1],
                      closest_points |-> <<>>]

\* variant: the distance column is added whatever the flag says
closest_rows_always_dist(right, g, rd) ==
    LET sel == loc(right, g.closest)
    IN  IF sel.err # "none" THEN Raise(sel.err, TRUE)
        ELSE
        LET d == set_distance(reset_index(sel.rows), g.closest_dist)
        IN  IF d.err # "none" THEN Raise(d.err, TRUE)
            ELSE [g EXCEPT !.closest_points = d.rows]

\* the rest of nearest_neighbor once get_nearest has returned
closest_rows(right, g, rd) ==
    LET sel == loc(right, g.closest)
    IN  IF sel.err # "none" THEN Raise(sel.err, TRUE)
        ELSE
        LET pts == reset_index(sel.rows)
        IN  IF ~rd THEN [g EXCEPT !.closest_points = pts]
            ELSE LET d == set_distance(pts, g.closest_dist)
                 IN  IF d.err # "none" THEN Raise(d.err, TRUE)
                     ELSE [g EXCEPT !.closest_points = d.rows]

\* variant: the copy keeps the labels of right_gdf, right_gdf.copy()
right_copy_keep_labels(rgdf) == rgdf

\* right = right_gdf.copy().reset_index(drop=True)
right_copy(rgdf) == reset_index(rgdf)

\* variant: a longitude outside [-180, 180] or a latitude outside [-90, 90]
\* is refused before anything is computed
nearest_neighbor_validated(lgdf, rgdf, rd) ==
    IF \/ \E i \in 1..Len(lgdf) :
             lgdf[i].geom.x \notin -180..180 \/ lgdf[i].geom.y \notin -90..90
       \/ \E j \in 1..Len(rgdf) :
             rgdf[j].geom.x \notin -180..180 \/ rgdf[j].geom.y \notin -90..90
    THEN Raise("ValueError", FALSE)
    ELSE LET right == right_copy(rgdf)
             g == get_nearest(to_radians(lgdf), to_radians(right), 1)
         IN  IF g.err # "none" THEN g ELSE closest_rows(right, g, rd)

\* nearest_neighbor(left_gdf, right_gdf, return_dist)
nearest_neighbor(lgdf, rgdf, rd) ==
    LET right == right_copy(rgdf)
        left_radians  == to_radians(lgdf)
        right_radians == to_radians(right)
        g == get_nearest(left_radians, right_radians, 1)
    IN  IF g.err # "none" THEN g ELSE closest_rows(right, g, rd)

\* variant: the index of the caller's table is reset in place,
\* right_gdf.reset_index(drop=True, inplace=True)
caller_tables_inplace(lgdf, rgdf) ==
    [left_gdf |-> lgdf, right_gdf |-> reset_index(rgdf)]

\* the caller's two tables after the call.  left_gdf is only read (its
\* geometry column is mapped to a new list); right_gdf is copied before
\* reset_index, and loc and reset_index return new tables, so that the
\* distance column is added to a table of the function's own.
caller_tables(lgdf, rgdf) ==
    [left_gdf |-> lgdf, right_gdf |-> rgdf]

----------------------------------------------------------------------------
(* The inputs the callers pass *)

Pt(lon, lat) == [x |-> lon, y |-> lat]

\* query points: the origin, a point off both axes, a latitude out of range
QueryPoints == {Pt(0, 0), Pt(60, 60), Pt(0, 120)}

\* candidate points: two at the same distance of the origin, one that is
\* also a query point
CandidatePoints == {Pt(0, 60), Pt(60, 0), Pt(60, 60)}

\* a point with a third coordinate, Point(x, y, z)
PtZ(lon, lat, z) == [x |-> lon, y |-> lat, z |-> z]

\* query points of tables in which some point has three coordinates
QueryPointsZ == {Pt(0, 0), PtZ(60, 60, 120)}

SeqsUpTo(S, n) == UNION {[1..m -> S] : m \in 0..n}

\* the point sequences of the query tables: the plain ones, and those with
\* a point of three coordinates among them
QuerySeqs ==
    SeqsUpTo(QueryPoints, MaxQ)
        \cup {q \in SeqsUpTo(QueryPointsZ, MaxQ) :
                 \E i \in 1..Len(q) : "z" \in DOMAIN q[i]}

\* index labels of a table of n rows: the default RangeIndex, the same
\* labels in reverse order, one label repeated on every row
LabelSchemes == {"range", "reversed", "repeated"}

\* the query table is given with unique labels
LeftSchemes == {"range", "reversed"}

Label(scheme, i, n) ==
    CASE scheme = "range"    -> i - 1
      [] scheme = "reversed" -> n - i
      [] scheme = "repeated" -> 0

\* a GeoDataFrame of the points pts; id is an attribute column
Table(pts, scheme) ==
    [i \in 1..Len(pts) |->
        [label |-> Label(scheme, i, Len(pts)), geom |-> pts[i], id |-> i - 1]]

\* the points as an array of radian pairs, as a direct caller of
\* get_nearest prepares it
Array(pts) == to_radians(Table(pts, "range"))

KValues == -1..(MaxC + 1)

\* calls with other arguments that a caller makes between two calls: one
\* that returns, one that fails for want of candidates
OtherCalls ==
    {[left_gdf |-> Table(<<Pt(0, 0)>>, "range"),
      right_gdf |-> Table(<<Pt(60, 60)>>, "range"),
      return_dist |-> TRUE],
     [left_gdf |-> Table(<<Pt(0, 0)>>, "range"),
      right_gdf |-> <<>>,
      return_dist |-> FALSE]}

Outcome == [err |-> err, closest |-> closest, closest_dist |-> closest_dist,
            closest_points |-> closest_points]

----------------------------------------------------------------------------
(* The state machine: a caller picks a function and its arguments, calls   *)
(* it, and may call it once more with the same arguments.                  *)

Init ==
    /\ pc = "call"
    /\ err = "none"
    /\ built = FALSE
    /\ closest = <<>>
    /\ closest_dist = <<>>
    /\ closest_points = <<>>
    /\ prev = <<>>
    /\ joined = <<>>
    /\ earlier = <<>>
    /\ leaf = leaf_size
    /\ fn \in {"nearest_neighbor", "get_nearest"}
    /\ \E q \in QuerySeqs, c \in SeqsUpTo(CandidatePoints, MaxC) :
          \/ /\ fn = "nearest_neighbor"
             /\ \E ls \in LeftSchemes, rs \in LabelSchemes :
                   /\ left_gdf = Table(q, ls)
                   /\ right_gdf = Table(c, rs)
             /\ return_dist \in BOOLEAN
             /\ src_points = <<>>
             /\ candidates = <<>>
             /\ k_neighbors = 1
          \/ /\ fn = "get_nearest"
             /\ q \in SeqsUpTo(QueryPoints, MaxQ)
             /\ left_gdf = <<>>
             /\ right_gdf = <<>>
             /\ return_dist = FALSE
             /\ src_points = Array(q)
             /\ candidates = Array(c)
             /\ k_neighbors \in KValues

\* closest_stops = nearest_neighbor(buildings, stops, return_dist=...)
NearestNeighborCall ==
    /\ pc = "call"
    /\ fn = "nearest_neighbor"
    /\ LET r == nearest_neighbor(left_gdf, right_gdf, return_dist)
       IN  /\ err' = r.err
           /\ built' = r.built
           /\ closest' = r.closest
           /\ closest_dist' = r.closest_dist
           /\ closest_points' = r.closest_points
    /\ src_points' = to_radians(left_gdf)
    /\ candidates' = to_radians(right_copy(right_gdf))
    /\ left_gdf' = caller_tables(left_gdf, right_gdf).left_gdf
    /\ right_gdf' = caller_tables(left_gdf, right_gdf).right_gdf
    /\ pc' = "done"
    /\ UNCHANGED <<leaf, fn, return_dist, k_neighbors, prev, joined, earlier>>

\* a query of no neighbours makes the heap rows empty; the search reads and
\* writes entry 0 of such a row, outside the array, so that the call either
\* goes on to indices[0] and its IndexError, or the process faults
ZeroWidthHeap ==
    /\ k_neighbors = 0
    /\ Len(candidates) > 0
    /\ Len(src_points) > 0

\* closest, closest_dist = get_nearest(src_points, candidates, k_neighbors)
GetNearestCall ==
    /\ pc = "call"
    /\ fn = "get_nearest"
    /\ LET r == get_nearest(src_points, candidates, k_neighbors)
       IN  /\ err' \in (IF ZeroWidthHeap THEN {r.err, "SegmentationFault"}
                        ELSE {r.err})
           /\ built' = r.built
           /\ closest' = r.closest
           /\ closest_dist' = r.closest_dist
           /\ closest_points' = r.closest_points
    /\ pc' = "done"
    /\ UNCHANGED <<leaf, fn, left_gdf, right_gdf, return_dist, src_points,
                   candidates, k_neighbors, prev, joined, earlier>>

\* the caller repeats the call with the same arguments; everything the
\* first call made is gone except what the caller kept of its outcome
Repeat ==
    /\ pc = "done"
    /\ prev = <<>>
    /\ prev' = <<Outcome>>
    /\ pc' = "call"
    /\ err' = "none"
    /\ built' = FALSE
    /\ closest' = <<>>
    /\ closest_dist' = <<>>
    /\ closest_points' = <<>>
    /\ src_points' = IF fn = "nearest_neighbor" THEN <<>> ELSE src_points
    /\ candidates' = IF fn = "nearest_neighbor" THEN <<>> ELSE candidates
    /\ UNCHANGED <<leaf, fn, left_gdf, right_gdf, return_dist, k_neighbors, joined,
                   earlier>>

\* between two calls with the same arguments the caller makes a call of
\* nearest_neighbor with other arguments, to its end; the caller keeps the
\* outcome of the first call, and of the call in between its candidates
\* and its error are noted
OtherCall ==
    /\ pc = "done"
    /\ fn = "nearest_neighbor"
    /\ prev = <<>>
    /\ earlier = <<>>
    /\ \E o \in OtherCalls :
          LET r == nearest_neighbor(o.left_gdf, o.right_gdf, o.return_dist)
          IN  earlier' = <<[candidates |-> to_radians(right_copy(o.right_gdf)),
                            err |-> r.err]>>
    /\ prev' = <<Outcome>>
    /\ pc' = "call"
    /\ err' = "none"
    /\ built' = FALSE
    /\ closest' = <<>>
    /\ closest_dist' = <<>>
    /\ closest_points' = <<>>
    /\ src_points' = <<>>
    /\ candidates' = <<>>
    /\ UNCHANGED <<leaf, fn, left_gdf, right_gdf, return_dist, k_neighbors, joined>>

\* buildings = buildings.join(closest_stops), on the table a call returned
JoinCall ==
    /\ pc = "done"
    /\ fn = "nearest_neighbor"
    /\ err = "none"
    /\ joined' = join(left_gdf, closest_points)
    /\ pc' = "joined"
    /\ UNCHANGED <<leaf, fn, left_gdf, right_gdf, return_dist, src_points,
                   candidates, k_neighbors, err, built, closest,
                   closest_dist, closest_points, prev, earlier>>

Next ==
    NearestNeighborCall \/ GetNearestCall \/ Repeat \/ OtherCall \/ JoinCall

Spec == Init /\ [][Next]_vars

----------------------------------------------------------------------------
(* Tables whose coordinates are not degrees of longitude and latitude: the *)
(* points of a projected reference system, passed to the same function.    *)

\* planar coordinates, among them values beyond 180 and beyond 90
PlanarPoints == {Pt(0, 0), Pt(60, 0), Pt(360, 0), Pt(0, 300)}

InitPlanar ==
    /\ pc = "call"
    /\ err = "none"
    /\ built = FALSE
    /\ closest = <<>>
    /\ closest_dist = <<>>
    /\ closest_points = <<>>
    /\ prev = <<>>
    /\ joined = <<>>
    /\ earlier = <<>>
    /\ leaf = leaf_size
    /\ fn = "nearest_neighbor"
    /\ \E q \in SeqsUpTo(PlanarPoints, MaxQ), c \in SeqsUpTo(PlanarPoints, MaxC) :
          /\ left_gdf = Table(q, "range")
          /\ right_gdf = Table(c, "range")
    /\ return_dist \in BOOLEAN
    /\ src_points = <<>>
    /\ candidates = <<>>
    /\ k_neighbors = 1

NextPlanar == NearestNeighborCall

SpecPlanar == InitPlanar /\ [][NextPlanar]_vars

----------------------------------------------------------------------------
(* Direct calls of get_nearest with any number of neighbours, on arrays of *)
(* one candidate more than the tables of the callers above hold.           *)

InitNeighbors ==
    /\ pc = "call"
    /\ err = "none"
    /\ built = FALSE
    /\ closest = <<>>
    /\ closest_dist = <<>>
    /\ closest_points = <<>>
    /\ prev = <<>>
    /\ joined = <<>>
    /\ earlier = <<>>
    /\ leaf = leaf_size
    /\ fn = "get_nearest"
    /\ left_gdf = <<>>
    /\ right_gdf = <<>>
    /\ return_dist = FALSE
    /\ \E q \in SeqsUpTo(QueryPoints, MaxQ) \ {<<>>},
          c \in [1..(MaxC + 1) -> CandidatePoints] :
          /\ src_points = Array(q)
          /\ candidates = Array(c)
    /\ k_neighbors \in 1..(MaxC + 1)

NextNeighbors == GetNearestCall

SpecNeighbors == InitNeighbors /\ [][NextNeighbors]_vars

----------------------------------------------------------------------------
(* The same functions on points a hundredth of a degree apart.  Here the   *)
(* coordinates are hundredths of a degree, all points of a call lie within *)
(* a few hundredths of one point of the 60-degree grid, and the haversine  *)
(* formula is taken to the second order of the small differences:          *)
(* sin(d / 2)^2 = (d / 2)^2 and asin(s) = s, the cosines those of the grid *)
(* point.  The relative error of this is below 10^-3.                      *)

\* lambda geom: (geom.x * np.pi / 180, geom.y * np.pi / 180), one component
\* in hundredths of a degree; the whole degrees and the rest are converted
\* apart to stay within 32 bits
RadiansFine(c) == Radians(c \div 100) + ((c % 100) * PiMicro) \div 18000

\* np.array(df[geom_col].apply(lambda geom: (...)).to_list())
to_radians_fine(df) ==
    Array1([i \in 1..Len(df) |->
               <<RadiansFine(df[i].geom.x), RadiansFine(df[i].geom.y)>>])

\* the integer square root of n, which is at most top
sqrt_upto(n, top) == CHOOSE r \in 0..top : r * r <= n /\ (r + 1) * (r + 1) > n

\* haversine distance of two near points of the arrays, in micro-radians:
\* 2 * asin(sqrt(sin(dlat/2)^2 + cos(lat1) * cos(lat2) * sin(dlon/2)^2))
\* with component 0 read as the latitude and component 1 as the longitude
haversine_fine(x1, x2) ==
    LET dlat == x1[1] - x2[1]
        dlon == x1[2] - x2[2]
        abs(d) == IF d < 0 THEN -d ELSE d
    IN  sqrt_upto(dlat * dlat
                    + (Cos2(x1[1]) * Cos2(x2[1]) * dlon * dlon) \div 4,
                  abs(dlat) + abs(dlon))

\* tree.query(pt, k=1) on a tree of one node: the first, in array order,
\* of the candidates at the least distance
nearest_fine(pt, cands) ==
    CHOOSE j \in 1..Len(cands) :
        /\ \A c \in 1..Len(cands) :
              haversine_fine(pt, cands[j]) <= haversine_fine(pt, cands[c])
        /\ \A c \in 1..(j - 1) :
              haversine_fine(pt, cands[j]) < haversine_fine(pt, cands[c])

\* get_nearest(src_points, candidates) with k_neighbors = 1
get_nearest_fine(src, cands) ==
    IF Len(cands) = 0 THEN Raise("ValueError", FALSE)
    ELSE [err |-> "none", built |-> TRUE,
          closest |-> [i \in 1..Len(src) |-> nearest_fine(src[i], cands) - 1],
          closest_dist |->
              [i \in 1..Len(src) |->
                  haversine_fine(src[i], cands[nearest_fine(src[i], cands)])],
          closest_points |-> <<>>]

\* variant: the pairs handed to the tree are (latitude, longitude)
nearest_neighbor_fine_latlon(lgdf, rgdf, rd) ==
    LET right == right_copy(rgdf)
        swap(a) == [i \in 1..Len(a) |-> <<a[i][2], a[i][1]>>]
        g == get_nearest_fine(swap(to_radians_fine(lgdf)),
                              swap(to_radians_fine(right)))
    IN  IF g.err # "none" THEN g ELSE closest_rows(right, g, rd)

\* nearest_neighbor(left_gdf, right_gdf, return_dist)
nearest_neighbor_fine(lgdf, rgdf, rd) ==
    LET right == right_copy(rgdf)
        left_radians  == to_radians_fine(lgdf)
        right_radians == to_radians_fine(right)
        g == get_nearest_fine(left_radians, right_radians)
    IN  IF g.err # "none" THEN g ELSE closest_rows(right, g, rd)

\* points at and next to the point of longitude lon on the equator
FinePoints(lon) == {Pt(lon, 0), Pt(lon, 1), Pt(lon + 1, 0)}

\* longitudes of the grid, in hundredths of a degree
FineLongitudes == {0, 60 * 100, 120 * 100}

InitFine ==
    /\ pc = "call"
    /\ err = "none"
    /\ built = FALSE
    /\ closest = <<>>
    /\ closest_dist = <<>>
    /\ closest_points = <<>>
    /\ prev = <<>>
    /\ joined = <<>>
    /\ earlier = <<>>
    /\ leaf = leaf_size
    /\ fn = "nearest_neighbor"
    /\ \E lon \in FineLongitudes :
       \E q \in SeqsUpTo(FinePoints(lon), MaxQ) \ {<<>>},
          c \in SeqsUpTo(FinePoints(lon), MaxC) \ {<<>>} :
          /\ left_gdf = Table(q, "range")
          /\ right_gdf = Table(c, "range")
    /\ return_dist \in BOOLEAN
    /\ src_points = <<>>
    /\ candidates = <<>>
    /\ k_neighbors = 1

\* closest = nearest_neighbor(left_gdf, right_gdf, return_dist)
FineCall ==
    /\ pc = "call"
    /\ fn = "nearest_neighbor"
    /\ LET r == nearest_neighbor_fine(left_gdf, right_gdf, return_dist)
       IN  /\ err' = r.err
           /\ built' = r.built
           /\ closest' = r.closest
           /\ closest_dist' = r.closest_dist
           /\ closest_points' = r.closest_points
    /\ src_points' = to_radians_fine(left_gdf)
    /\ candidates' = to_radians_fine(right_copy(right_gdf))
    /\ left_gdf' = caller_tables(left_gdf, right_gdf).left_gdf
    /\ right_gdf' = caller_tables(left_gdf, right_gdf).right_gdf
    /\ pc' = "done"
    /\ UNCHANGED <<leaf, fn, return_dist, k_neighbors, prev, joined, earlier>>

NextFine == FineCall

SpecFine == InitFine /\ [][NextFine]_vars

----------------------------------------------------------------------------
(* BallTree with another leaf size.  The tree over n points has            *)
(* 2^n_levels - 1 nodes with n_levels = floor(log2(max(1, (n - 1) /        *)
(* leaf_size))) + 1.  The model covers, besides the trees of one node, the *)
(* trees of two levels: a root and two leaves, which hold the two sides of *)
(* a split of the points at the middle, n / 2, along the coordinate of     *)
(* greatest spread.  The split leaves the order of the points inside each  *)
(* side to the selection routine; the model admits every order.  A node    *)
(* is a ball: its centre is the mean of its points' coordinates, its       *)
(* radius their greatest distance to the centre.  The points of the calls  *)
(* are such that the centres of the leaves lie on the 60-degree grid.      *)

two_levels(n, lf) == 2 * lf <= n - 1 /\ n - 1 < 4 * lf

\* the spread of the points along one coordinate, max - min
spread(cands, dim) ==
    cands[CHOOSE v \in 1..Len(cands) :
              \A w \in 1..Len(cands) : cands[w][dim] <= cands[v][dim]][dim]
    - cands[CHOOSE v \in 1..Len(cands) :
                \A w \in 1..Len(cands) : cands[v][dim] <= cands[w][dim]][dim]

\* find_node_split_dim: the first coordinate of greatest spread
find_node_split_dim(cands) ==
    IF spread(cands, 2) > spread(cands, 1) THEN 2 ELSE 1

\* partition_node_indices: the orders of the points in which none of the
\* first n / 2 lies beyond one of the others along the split coordinate
Partitions(cands) ==
    {p \in [1..Len(cands) -> 1..Len(cands)] :
        /\ \A i, j \in 1..Len(cands) : p[i] = p[j] => i = j
        /\ \A i \in 1..(Len(cands) \div 2) :
              \A j \in (Len(cands) \div 2 + 1)..Len(cands) :
                  cands[p[i]][find_node_split_dim(cands)]
                    <= cands[p[j]][find_node_split_dim(cands)]}

\* BallTree(candidates, leaf_size=lf, metric='haversine') of two levels,
\* its points in the order p
BallTree_leaf(cands, p) ==
    [err |-> "none",
     data |-> cands,
     is_leaf |-> FALSE,
     idx_array |-> Array1([i \in 1..Len(cands) |-> p[i] - 1]),
     n_mid |-> Len(cands) \div 2]

\* the places in idx_array of the points of leaf node 1 or 2
idx_start(tree, node) == IF node = 1 THEN 1 ELSE tree.n_mid + 1
idx_end(tree, node) == IF node = 1 THEN tree.n_mid ELSE Len(tree.data)

RECURSIVE sum_coord(_, _, _, _)
sum_coord(tree, dim, i, last) ==
    IF i > last THEN 0
    ELSE tree.data[tree.idx_array[i] + 1][dim]
           + sum_coord(tree, dim, i + 1, last)

\* init_node: the centre of a node
centroid(tree, node) ==
    <<sum_coord(tree, 1, idx_start(tree, node), idx_end(tree, node))
        \div (idx_end(tree, node) - idx_start(tree, node) + 1),
      sum_coord(tree, 2, idx_start(tree, node), idx_end(tree, node))
        \div (idx_end(tree, node) - idx_start(tree, node) + 1)>>

\* the distance, in micro-radians, of pt to the point at place i of
\* idx_array
dist_to(tree, pt, i) ==
    rdist_to_dist(haversine_rdist(pt, tree.data[tree.idx_array[i] + 1]))

\* init_node: the radius of a node, in micro-radians
radius(tree, node) ==
    dist_to(tree, centroid(tree, node),
            CHOOSE i \in idx_start(tree, node)..idx_end(tree, node) :
                \A j \in idx_start(tree, node)..idx_end(tree, node) :
                    dist_to(tree, centroid(tree, node), j)
                      <= dist_to(tree, centroid(tree, node), i))

\* fmax(0, d)
fmax0(d) == IF d < 0 THEN 0 ELSE d

\* variant: the bound is the distance to the centre of the node
min_dist_to_centre(tree, node, pt) ==
    rdist_to_dist(haversine_rdist(pt, centroid(tree, node)))

\* min_dist: no point of the node is nearer to pt than this, in
\* micro-radians: max(0, dist(pt, centre) - radius)
min_dist(tree, node, pt) ==
    fmax0(rdist_to_dist(haversine_rdist(pt, centroid(tree, node)))
            - radius(tree, node))

\* the points of one leaf as a node to scan
leaf_node(tree, node) ==
    [tree EXCEPT !.idx_array =
        SubSeq(tree.idx_array, idx_start(tree, node), idx_end(tree, node))]

\* _query_single_depthfirst on a leaf: the node is passed by when its bound
\* is above the largest distance kept, else its points are offered to the
\* heap
visit(tree, node, pt, h) ==
    IF h[1][1] < Inf /\ min_dist(tree, node, pt) > rdist_to_dist(h[1][1])
    THEN h
    ELSE scan_leaf(leaf_node(tree, node), pt, h, 1)

\* the leaf to search first: that of the smaller bound, node 1 when the
\* bounds are equal.  Bounds that differ by the rounding of the arithmetic
\* only leave the order open: tie_first.
first_leaf(b1, b2, tie_first) ==
    IF b1 = b2 THEN 1
    ELSE IF b1 + 2 < b2 THEN 1
    ELSE IF b2 + 2 < b1 THEN 2
    ELSE tie_first

\* the search of the two leaves, node first before the other
search_leaves(tree, pt, k, first) ==
    simultaneous_sort(
        Array1(visit(tree, 3 - first, pt,
                     Array1(visit(tree, first, pt, new_heap(k))))))

\* _query_single_depthfirst on the root
query_single_leaf(tree, pt, k, tie_first) ==
    search_leaves(tree, pt, k,
                  first_leaf(min_dist(tree, 1, pt), min_dist(tree, 2, pt),
                             tie_first))

\* tree.query(X, k) on a tree of two levels
query_leaf(tree, X, k, tie_first) ==
    IF Len(X) = 0 THEN [err |-> "ValueError"]
    ELSE IF k > Len(tree.data) THEN [err |-> "ValueError"]
    ELSE IF k < 1 THEN [err |-> "ValueError"]
    ELSE LET rows == Array1([i \in 1..Len(X) |->
                                query_single_leaf(tree, X[i], k, tie_first)])
         IN  [err |-> "none",
              distances |->
                  [i \in 1..Len(X) |->
                      [j \in 1..k |-> rdist_to_dist(rows[i][j][1])]],
              indices |->
                  [i \in 1..Len(X) |-> [j \in 1..k |-> rows[i][j][2]]]]

\* get_nearest with BallTree(candidates, leaf_size=lf, metric='haversine')
get_nearest_leaf(src, cands, k, lf, p, tie_first) ==
    IF ~two_levels(Len(cands), lf) THEN get_nearest(src, cands, k)
    ELSE
    LET q == query_leaf(BallTree_leaf(cands, p), src, k, tie_first)
    IN  IF q.err # "none" THEN Raise(q.err, TRUE)
        ELSE [err |-> "none", built |-> TRUE,
              closest |-> transpose(q.indices)[1],
              closest_dist |-> transpose(q.distances)[1],
              closest_points |-> <<>>]

\* leaf sizes: one that makes a tree of the candidates, and the notebook's,
\* with which the search is a scan of all of them
LeafSizes == {1, leaf_size}

\* candidates whose means, pair by pair, lie on the grid
LeafPoints ==
    {Pt(0, 60), Pt(0, -60), Pt(120, 60), Pt(120, -60), Pt(-120, -60)}

LeafQueries == {Pt(0, 0), Pt(60, 0), Pt(-60, 60)}

InitLeaf ==
    /\ pc = "call"
    /\ err = "none"
    /\ built = FALSE
    /\ closest = <<>>
    /\ closest_dist = <<>>
    /\ closest_points = <<>>
    /\ prev = <<>>
    /\ joined = <<>>
    /\ earlier = <<>>
    /\ leaf \in LeafSizes
    /\ fn = "get_nearest"
    /\ left_gdf = <<>>
    /\ right_gdf = <<>>
    /\ return_dist = FALSE
    /\ \E q \in LeafQueries, c \in [1..(MaxC + 1) -> LeafPoints] :
          /\ src_points = Array(<<q>>)
          /\ candidates = Array(c)
    /\ k_neighbors \in 1..2

\* closest, closest_dist = get_nearest(src_points, candidates, k_neighbors)
\* with a tree of the leaf size leaf
LeafCall ==
    /\ pc = "call"
    /\ fn = "get_nearest"
    /\ \E p \in Partitions(candidates), tie_first \in {1, 2} :
          LET r == get_nearest_leaf(src_points, candidates, k_neighbors,
                                    leaf, p, tie_first)
          IN  /\ err' = r.err
              /\ built' = r.built
              /\ closest' = r.closest
              /\ closest_dist' = r.closest_dist
              /\ closest_points' = r.closest_points
    /\ pc' = "done"
    /\ UNCHANGED <<leaf, fn, left_gdf, right_gdf, return_dist, src_points,
                   candidates, k_neighbors, prev, joined, earlier>>

NextLeaf == LeafCall

SpecLeaf == InitLeaf /\ [][NextLeaf]_vars

----------------------------------------------------------------------------
(* Vocabulary of the properties *)

Done == pc = "done"
Returned == Done /\ err = "none"
Matched == Returned /\ fn = "nearest_neighbor"

\* longitude and latitude within the ranges of WGS84
InRange(p) == p.x \in -180..180 /\ p.y \in -90..90

AllInRange ==
    /\ \A i \in 1..Len(left_gdf) : InRange(left_gdf[i].geom)
    /\ \A j \in 1..Len(right_gdf) : InRange(right_gdf[j].geom)

\* great-circle distance of two points, x the longitude and y the
\* latitude: the haversine formula on (latitude, longitude), in sixteenths
GreatCircleRdist(p, q) ==
    haversine_rdist(<<Radians(p.y), Radians(p.x)>>,
                    <<Radians(q.y), Radians(q.x)>>)

\* the same in metres on the sphere of the Earth's radius
GreatCircleMeters(p, q) ==
    FxMul(rdist_to_dist(GreatCircleRdist(p, q)), earth_radius)

\* angular distance, as the tree measures it, of two points of the arrays
TreeDist(a, b) == rdist_to_dist(haversine_rdist(a, b))

Perms(n) == {p \in [1..n -> 1..n] : \A i, j \in 1..n : p[i] = p[j] => i = j}

\* two candidates at the same distance of some query point
HasTie ==
    \E i \in 1..Len(src_points) : \E a, b \in 1..Len(candidates) :
        /\ a # b
        /\ haversine_rdist(src_points[i], candidates[a])
             = haversine_rdist(src_points[i], candidates[b])
        /\ \A c \in 1..Len(candidates) :
              haversine_rdist(src_points[i], candidates[a])
                <= haversine_rdist(src_points[i], candidates[c])

----------------------------------------------------------------------------
(* C1: for every query set and every non-empty candidate set, the          *)
(* candidate returned for a query point is one whose great-circle distance *)
(* to it, with x the longitude and y the latitude, is least among all the  *)
(* candidates.                                                             *)
C1_NearestByGreatCircle ==
    (Done /\ fn = "nearest_neighbor" /\ AllInRange
          /\ Len(left_gdf) > 0 /\ Len(right_gdf) > 0)
    => /\ err = "none"
       /\ Len(closest_points) = Len(left_gdf)
       /\ \A i \in 1..Len(left_gdf) : \A j \in 1..Len(right_gdf) :
             GreatCircleRdist(left_gdf[i].geom, closest_points[i].geom)
               <= GreatCircleRdist(left_gdf[i].geom, right_gdf[j].geom)

(* C2: for every query set, the empty one too, and every non-empty         *)
(* candidate set, whatever its index labels, nearest_neighbor returns a    *)
(* table of as many rows as the query set has.                             *)
C2_OneRowPerQuery ==
    (Done /\ fn = "nearest_neighbor" /\ Len(right_gdf) > 0)
    => /\ err = "none"
       /\ Len(closest_points) = Len(left_gdf)

(* C3: the result follows the order of the query: row i is the match of    *)
(* query point i alone, rows are labelled by position, and the result for  *)
(* a permuted query set is the permuted result.                            *)
C3_OrderFollowsQuery ==
    Matched =>
        LET n == Len(left_gdf)
        IN  /\ Len(closest_points) = n
            /\ \A i \in 1..n :
                  LET one == nearest_neighbor(<<left_gdf[i]>>, right_gdf,
                                              return_dist)
                  IN  /\ one.err = "none"
                      /\ closest_points[i].label = i - 1
                      /\ Content(closest_points[i])
                           = Content(one.closest_points[1])
            /\ \A p \in Perms(n) :
                  LET r == nearest_neighbor([i \in 1..n |-> left_gdf[p[i]]],
                                            right_gdf, return_dist)
                  IN  /\ r.err = "none"
                      /\ Len(r.closest_points) = n
                      /\ \A i \in 1..n :
                            Content(r.closest_points[i])
                              = Content(closest_points[p[i]])

\* C3 witness: two query points matched to different candidates
C3_Witness ==
    /\ Matched
    /\ Len(left_gdf) >= 2
    /\ closest_points[1].id # closest_points[2].id
    /\ closest[1] > closest[2]

(* C4: with return_dist the distance of row i is the great-circle distance *)
(* in metres of query point i (x the longitude, y the latitude) and the    *)
(* candidate of row i: the haversine angle times 6371000.                  *)
C4_DistanceIsGreatCircle ==
    (Matched /\ return_dist /\ AllInRange)
    => \A i \in 1..Len(closest_points) :
          closest_points[i].distance
            = GreatCircleMeters(left_gdf[i].geom, closest_points[i].geom)

(* C5: an empty query set with a non-empty candidate set gives an empty    *)
(* result and no error.                                                    *)
C5_EmptyQueryEmptyResult ==
    (Done /\ fn = "nearest_neighbor" /\ Len(left_gdf) = 0
          /\ Len(right_gdf) > 0)
    => /\ err = "none"
       /\ closest_points = <<>>

(* C6, as stated: an empty candidate set makes the call fail with          *)
(* EmptyCandidateSetError.                                                 *)
C6_EmptyCandidateSetError ==
    (Done /\ fn = "nearest_neighbor" /\ Len(right_gdf) = 0)
    => err = "EmptyCandidateSetError"

(* C6, amended: for every query set, an empty candidate set makes the call *)
(* fail with the ValueError of the BallTree constructor: no tree is built  *)
(* and nothing is returned.                                                *)
C6_EmptyCandidatesValueError ==
    (Done /\ fn = "nearest_neighbor" /\ Len(right_gdf) = 0)
    => /\ err = "ValueError"
       /\ ~built
       /\ closest = <<>>
       /\ closest_points = <<>>

\* C6 witness: a call with query points and no candidate has ended
C6_Witness ==
    /\ Done
    /\ fn = "nearest_neighbor"
    /\ Len(right_gdf) = 0
    /\ Len(left_gdf) > 0
    /\ err # "none"

(* C7: every index returned is a position of the candidate set,            *)
(* 0 <= index < |C|, one for every query point.                            *)
C7_IndexInBounds ==
    Returned =>
        /\ Len(closest) = Len(src_points)
        /\ \A i \in 1..Len(closest) :
              closest[i] \in 0..(Len(candidates) - 1)

\* C7 witness: the last candidate is returned for some query point
C7_Witness ==
    /\ Returned
    /\ Len(candidates) >= 2
    /\ \E i \in 1..Len(closest) : closest[i] = Len(candidates) - 1

C9_InvalidKError ==
    (Done /\ fn = "get_nearest"
          /\ k_neighbors \notin 1..Len(candidates))
    => err = "InvalidKError"

(* C9, amended: a k outside 1..|candidates| makes get_nearest fail and     *)
(* return nothing; the error is the ValueError of the tree or of numpy,    *)
(* except for k = 0 over a tree and query points, where it is the          *)
(* IndexError of indices[0] or a fault of the process.                     *)
C9_InvalidKFails ==
    (Done /\ fn = "get_nearest"
          /\ k_neighbors \notin 1..Len(candidates))
    => /\ closest = <<>>
       /\ closest_dist = <<>>
       /\ IF ZeroWidthHeap
          THEN err \in {"IndexError", "SegmentationFault"}
          ELSE err = "ValueError"

\* C9 witness: a call with more neighbours asked than candidates has ended
C9_Witness ==
    /\ Done
    /\ fn = "get_nearest"
    /\ Len(src_points) > 0
    /\ Len(candidates) > 0
    /\ k_neighbors > Len(candidates)
    /\ err = "ValueError"

(* C10, as stated: with k > 1 the call returns k indices for every query   *)
(* point.                                                                  *)
C10_KIndicesPerPoint ==
    (Returned /\ fn = "get_nearest" /\ k_neighbors > 1)
    => Len(closest) = k_neighbors * Len(src_points)

(* C10, amended: with k > 1 get_nearest returns, for every query point,    *)
(* one index only, within 0..|C|-1: that of a candidate at the least       *)
(* distance, the first of the k found, with its angular distance.          *)
C10_OnlyTheNearestOfK ==
    (Returned /\ fn = "get_nearest" /\ k_neighbors > 1)
    => /\ Len(closest) = Len(src_points)
       /\ Len(closest_dist) = Len(src_points)
       /\ \A i \in 1..Len(src_points) :
             /\ closest[i] \in 0..(Len(candidates) - 1)
             /\ closest_dist[i]
                  = TreeDist(src_points[i], candidates[closest[i] + 1])
             /\ \A j \in 1..Len(candidates) :
                   closest_dist[i] <= TreeDist(src_points[i], candidates[j])

\* C10 witness: a query of several neighbours over candidates at different
\* distances has returned
C10_Witness ==
    /\ Returned
    /\ fn = "get_nearest"
    /\ k_neighbors > 1
    /\ \E i \in 1..Len(src_points) : \E j \in 1..Len(candidates) :
          closest_dist[i] < TreeDist(src_points[i], candidates[j])


C13_CoincidentAtZero ==
    Returned =>
        \A i \in 1..Len(src_points) :
            (\E j \in 1..Len(candidates) : candidates[j] = src_points[i])
            => /\ closest_dist[i] = 0
               /\ (fn = "nearest_neighbor" /\ return_dist)
                     => closest_points[i].distance = 0

\* C13 witness: a query point that is also a candidate, listed after a
\* candidate it does not coincide with, got distance 0 in metres
C13_Witness ==
    /\ Matched
    /\ return_dist
    /\ \E i \in 1..Len(left_gdf) :
          /\ Len(right_gdf) >= 2
          /\ right_gdf[1].geom # left_gdf[i].geom
          /\ right_gdf[2].geom = left_gdf[i].geom
          /\ closest_points[i].distance = 0

(* C14: every distance returned is non-negative: the angles of get_nearest *)
(* and the metres of the distance column.                                  *)
C14_DistanceNonNegative ==
    Returned =>
        /\ \A i \in 1..Len(closest_dist) : closest_dist[i] >= 0
        /\ (fn = "nearest_neighbor" /\ return_dist)
              => \A i \in 1..Len(closest_points) :
                    closest_points[i].distance >= 0

\* C14 witness: a distance of more than a quarter of the circumference was
\* returned in metres
C14_Witness ==
    /\ Matched
    /\ return_dist
    /\ \E i \in 1..Len(closest_points) :
          closest_points[i].distance > FxMul(PiMicro \div 2, earth_radius)

(* C15: with a candidate set of exactly one point, every query point is    *)
(* matched to index 0 and its distance is the great-circle distance in     *)
(* metres (x the longitude, y the latitude) to that candidate.             *)
C15_SingleCandidate ==
    (Matched /\ return_dist /\ AllInRange /\ Len(right_gdf) = 1)
    => /\ Len(closest_points) = Len(left_gdf)
       /\ \A i \in 1..Len(left_gdf) :
             /\ closest[i] = 0
             /\ closest_points[i].geom = right_gdf[1].geom
             /\ closest_points[i].distance
                  = GreatCircleMeters(left_gdf[i].geom, right_gdf[1].geom)


(* C16: for any left table, joining the returned table to left_gdf by      *)
(* index gives one row for every left row, in order, and attaches to left  *)
(* row i the candidate that is the match of row i.                         *)
C16_JoinAttachesOwnMatch ==
    pc = "joined" =>
        /\ Len(joined) = Len(left_gdf)
        /\ \A i \in 1..Len(left_gdf) :
              LET one == nearest_neighbor(<<left_gdf[i]>>, right_gdf,
                                          return_dist)
              IN  /\ joined[i].label = left_gdf[i].label
                  /\ joined[i].geom = left_gdf[i].geom
                  /\ joined[i].closest_stop = Content(one.closest_points[1])


HasZ(df) == \E i \in 1..Len(df) : "z" \in DOMAIN df[i].geom

\* the table with every point cut to (x, y)
DropZ(df) ==
    [i \in 1..Len(df) |-> [df[i] EXCEPT !.geom = Pt(df[i].geom.x, df[i].geom.y)]]

(* C18, as stated: a query point that does not have exactly two            *)
(* coordinates makes the call fail with DimensionMismatchError.            *)
C18_DimensionMismatchError ==
    (Done /\ fn = "nearest_neighbor" /\ HasZ(left_gdf))
    => err = "DimensionMismatchError"

(* C18, amended: a query point with a third coordinate does not make the   *)
(* call fail.  Only x and y are read: the call gives the indices and the   *)
(* distances it gives for the table with every point cut to (x, y), and it *)
(* returns whenever there is a candidate.                                  *)
C18_ThirdCoordinateIgnored ==
    (Done /\ fn = "nearest_neighbor" /\ HasZ(left_gdf))
    => LET flat == nearest_neighbor(DropZ(left_gdf), right_gdf, return_dist)
       IN  /\ err = flat.err
           /\ closest = flat.closest
           /\ closest_dist = flat.closest_dist
           /\ closest_points = flat.closest_points
           /\ Len(right_gdf) > 0 => err = "none"

\* C18 witness: a table with a point of three coordinates was matched, to
\* the candidate at its x and y
C18_Witness ==
    /\ Matched
    /\ return_dist
    /\ \E i \in 1..Len(left_gdf) :
          /\ "z" \in DOMAIN left_gdf[i].geom
          /\ closest_points[i].geom = Pt(left_gdf[i].geom.x, left_gdf[i].geom.y)
          /\ closest_points[i].distance = 0
          /\ Len(right_gdf) >= 2


\* the candidates at the least distance of query point i, as positions
\* counted from 0
NearestSet(i) ==
    {a - 1 : a \in {b \in 1..Len(candidates) :
                       \A c \in 1..Len(candidates) :
                           haversine_rdist(src_points[i], candidates[b])
                             <= haversine_rdist(src_points[i], candidates[c])}}

Without(a, j) == [i \in 1..(Len(a) - 1) |-> IF i < j THEN a[i] ELSE a[i + 1]]

\* an array in reverse order
Reversed(a) == [i \in 1..Len(a) |-> a[Len(a) + 1 - i]]

(* C20: the index and the distance returned for query point i depend on    *)
(* that point and the candidates only: they are those of the call on the   *)
(* point alone, and the calls on the array in reverse order and on the     *)
(* array without another point give the same for the points they share.    *)
C20_PerQueryIndependent ==
    Returned =>
        /\ \A i \in 1..Len(src_points) :
              LET one == get_nearest(<<src_points[i]>>, candidates, k_neighbors)
              IN  /\ one.err = "none"
                  /\ one.closest = <<closest[i]>>
                  /\ one.closest_dist = <<closest_dist[i]>>
        /\ LET rev == get_nearest(Reversed(src_points), candidates,
                                  k_neighbors)
           IN  /\ rev.err = "none"
               /\ rev.closest = Reversed(closest)
               /\ rev.closest_dist = Reversed(closest_dist)
        /\ Len(src_points) >= 2 =>
              \A j \in 1..Len(src_points) :
                  LET less == get_nearest(Without(src_points, j), candidates,
                                         k_neighbors)
                  IN  /\ less.err = "none"
                      /\ less.closest = Without(closest, j)
                      /\ less.closest_dist = Without(closest_dist, j)

\* C20 witness: get_nearest has returned different candidates at different
\* distances for two query points
C20_Witness ==
    /\ Returned
    /\ fn = "get_nearest"
    /\ Len(src_points) >= 2
    /\ closest[1] # closest[2]
    /\ closest_dist[1] < closest_dist[2]

(* C21: the flag return_dist does not change which candidate is chosen.   *)
(* The call with the flag negated ends alike, with the same indices and    *)
(* rows of the same label, geometry and attributes; every row has a        *)
(* distance when the flag is true and no row has one when it is false.     *)
C21_FlagOnlyAddsDistance ==
    (Done /\ fn = "nearest_neighbor") =>
        LET other == nearest_neighbor(left_gdf, right_gdf, ~return_dist)
        IN  /\ other.err = err
            /\ other.closest = closest
            /\ Len(other.closest_points) = Len(closest_points)
            /\ \A i \in 1..Len(closest_points) :
                  /\ other.closest_points[i].label = closest_points[i].label
                  /\ other.closest_points[i].geom = closest_points[i].geom
                  /\ other.closest_points[i].id = closest_points[i].id
                  /\ ("distance" \in DOMAIN closest_points[i]) = return_dist
                  /\ ("distance" \in DOMAIN other.closest_points[i])
                       = ~return_dist

\* C21 witness: a call without the flag has returned rows for two query
\* points matched to different candidates
C21_Witness ==
    /\ Matched
    /\ ~return_dist
    /\ Len(closest_points) >= 2
    /\ closest[1] # closest[2]
    /\ "distance" \notin DOMAIN closest_points[1]

\* the array holds, row by row in the order of the table, the pair
\* (x * pi / 180, y * pi / 180) of the table's points
RadianPairsOf(a, df) ==
    /\ Len(a) = Len(df)
    /\ \A i \in 1..Len(df) :
          a[i] = <<(df[i].geom.x * PiMicro) \div 180,
                   (df[i].geom.y * PiMicro) \div 180>>

(* C22, as stated: the conversion gives, for the query and for the         *)
(* candidate table alike, one pair (x * pi / 180, y * pi / 180) for every  *)
(* point in the order of the table, in an array of shape (N, 2).           *)
C22_ShapeN2 ==
    (Done /\ fn = "nearest_neighbor")
    => /\ RadianPairsOf(src_points, left_gdf)
       /\ RadianPairsOf(candidates, right_gdf)
       /\ shape(src_points) = <<Len(left_gdf), 2>>
       /\ shape(candidates) = <<Len(right_gdf), 2>>

(* C22, amended: the conversion gives, for the query and for the candidate *)
(* table alike, one pair (x * pi / 180, y * pi / 180) for every point in   *)
(* the order of the table.  The array has the shape (N, 2) for a table of  *)
(* N >= 1 points; for an empty table it is the empty array of one          *)
(* dimension, of shape (0,).                                               *)
C22_RadianPairs ==
    (Done /\ fn = "nearest_neighbor")
    => /\ RadianPairsOf(src_points, left_gdf)
       /\ RadianPairsOf(candidates, right_gdf)
       /\ shape(src_points)
            = IF Len(left_gdf) = 0 THEN <<0>> ELSE <<Len(left_gdf), 2>>
       /\ shape(candidates)
            = IF Len(right_gdf) = 0 THEN <<0>> ELSE <<Len(right_gdf), 2>>

\* C22 witness: two different points were converted in each table, one of
\* them with x different from y
C22_Witness ==
    /\ Done
    /\ fn = "nearest_neighbor"
    /\ Len(left_gdf) >= 2
    /\ Len(right_gdf) >= 2
    /\ src_points[1] # src_points[2]
    /\ candidates[1] # candidates[2]
    /\ candidates[1][1] # candidates[1][2]

(* C23: coordinates outside [-180, 180] for x or [-90, 90] for y are not   *)
(* rejected: a call on tables with such points, each table with a point at *)
(* least, raises no error and returns one index and one row for every      *)
(* query point.                                                            *)
C23_OutOfRangeAccepted ==
    (Done /\ fn = "nearest_neighbor" /\ ~AllInRange
          /\ Len(left_gdf) > 0 /\ Len(right_gdf) > 0)
    => /\ err = "none"
       /\ Len(closest) = Len(left_gdf)
       /\ Len(closest_points) = Len(left_gdf)

\* C23 witness: a call has returned for a query table and a candidate
\* table that both hold a point out of range, in x for one and in y for
\* the other
C23_Witness ==
    /\ Matched
    /\ Len(left_gdf) >= 2
    /\ \E i \in 1..Len(left_gdf) : left_gdf[i].geom.x \notin -180..180
    /\ \E j \in 1..Len(right_gdf) : right_gdf[j].geom.y \notin -90..90

\* the square of the distance of two points in the plane of their own
\* coordinates
PlanarDistSq(p, q) == (p.x - q.x) * (p.x - q.x) + (p.y - q.y) * (p.y - q.y)

(* C26: for points in a projection other than WGS84 the candidate returned *)
(* for a query point is still the nearest in the points' own coordinates:  *)
(* no candidate is nearer to the query point in the plane.                 *)
C26_NearestInOwnCoordinates ==
    Matched =>
        \A i \in 1..Len(left_gdf) : \A j \in 1..Len(right_gdf) :
            PlanarDistSq(left_gdf[i].geom, closest_points[i].geom)
              <= PlanarDistSq(left_gdf[i].geom, right_gdf[j].geom)

(* C27: row i of the result carries the geometry and the attributes of    *)
(* the row of right_gdf at position closest[i], whatever the index labels  *)
(* of right_gdf are: in order, reversed, or one label on every row.        *)
C27_RowAtPosition ==
    Matched =>
        /\ Len(closest_points) = Len(closest)
        /\ \A i \in 1..Len(closest) :
              /\ closest_points[i].geom = right_gdf[closest[i] + 1].geom
              /\ closest_points[i].id = right_gdf[closest[i] + 1].id

\* C27 witness: a row of a right table with one label on every row was
\* returned from the second position
C27_Witness ==
    /\ Matched
    /\ Len(right_gdf) >= 2
    /\ right_gdf[1].label = right_gdf[2].label
    /\ \E i \in 1..Len(closest) :
          /\ closest[i] = 1
          /\ closest_points[i].id = 1

(* C28, as stated: for every k with 1 <= k <= |candidates| get_nearest     *)
(* returns one index and one distance for every source point, and they are *)
(* the index and the distance that k = 1 returns.                          *)
C28_SameAsKOne ==
    (Returned /\ fn = "get_nearest")
    => LET one == get_nearest(src_points, candidates, 1)
       IN  /\ Len(closest) = Len(src_points)
           /\ Len(closest_dist) = Len(src_points)
           /\ closest = one.closest
           /\ closest_dist = one.closest_dist

(* C28, amended: for every k with 1 <= k <= |candidates| get_nearest       *)
(* returns one index and one distance for every source point.  The         *)
(* distance is the one k = 1 returns.  The index is that of a candidate at *)
(* this least distance: the one k = 1 returns when a single candidate is   *)
(* nearest, possibly another of them when several are equally near.        *)
C28_SameDistanceAsKOne ==
    (Returned /\ fn = "get_nearest")
    => LET one == get_nearest(src_points, candidates, 1)
       IN  /\ k_neighbors \in 1..Len(candidates)
           /\ one.err = "none"
           /\ Len(closest) = Len(src_points)
           /\ closest_dist = one.closest_dist
           /\ \A i \in 1..Len(src_points) :
                 /\ closest[i] \in NearestSet(i)
                 /\ Cardinality(NearestSet(i)) = 1
                       => closest[i] = one.closest[i]

\* C28 witness: with k = 2 the nearest of two candidates at different
\* distances was returned from the second position
C28_Witness ==
    /\ Returned
    /\ fn = "get_nearest"
    /\ k_neighbors = 2
    /\ \E i \in 1..Len(src_points) :
          /\ NearestSet(i) = {1}
          /\ closest[i] = 1

\* the points that may be added to a candidate array, as radian pairs
ExtraCandidates == {Array(<<p>>)[1] : p \in CandidatePoints}

(* C29, as stated: adding a point to the candidate array, at its end or at *)
(* its front, never increases the distance returned for a query point, and *)
(* the candidate returned for it stays the same (its index moved by the    *)
(* insertion) unless the added point is at least as close as the one       *)
(* returned before.                                                        *)
C29_AddingNeverIncreases ==
    Returned =>
        \A p \in ExtraCandidates : \A front \in BOOLEAN :
            LET more  == IF front THEN <<p>> \o candidates
                         ELSE Append(candidates, p)
                shift == IF front THEN 1 ELSE 0
                r     == get_nearest(src_points, more, k_neighbors)
            IN  /\ r.err = "none"
                /\ Len(r.closest) = Len(closest)
                /\ \A i \in 1..Len(closest) :
                      /\ r.closest_dist[i] <= closest_dist[i]
                      /\ r.closest[i] # closest[i] + shift
                            => TreeDist(src_points[i], p) <= closest_dist[i]

(* C29, amended: adding a point to the candidate array, at its end or at   *)
(* its front, never increases the distance returned for a query point.     *)
(* With k = 1 the candidate returned stays the same (its index moved by    *)
(* the insertion) unless the added point is at least as close as the one   *)
(* returned before; with k > 1 it may also become another candidate at     *)
(* exactly the distance returned before.                                   *)
C29_AddingKeepsDistance ==
    Returned =>
        \A p \in ExtraCandidates : \A front \in BOOLEAN :
            LET more  == IF front THEN <<p>> \o candidates
                         ELSE Append(candidates, p)
                shift == IF front THEN 1 ELSE 0
                r     == get_nearest(src_points, more, k_neighbors)
            IN  /\ r.err = "none"
                /\ Len(r.closest) = Len(closest)
                /\ \A i \in 1..Len(closest) :
                      /\ r.closest_dist[i] <= closest_dist[i]
                      /\ r.closest[i] # closest[i] + shift
                            => \/ TreeDist(src_points[i], p) <= closest_dist[i]
                               \/ /\ k_neighbors > 1
                                  /\ r.closest_dist[i] = closest_dist[i]
                                  /\ TreeDist(src_points[i],
                                              more[r.closest[i] + 1])
                                       = closest_dist[i]

\* C29 witness: a call has returned for a query point a candidate farther
\* than a point that may be added, and nearer than another
C29_Witness ==
    /\ Returned
    /\ Len(candidates) >= 2
    /\ \E i \in 1..Len(closest) : \E p, q \in ExtraCandidates :
          /\ TreeDist(src_points[i], p) < closest_dist[i]
          /\ TreeDist(src_points[i], q) > closest_dist[i]


\* the candidate array with its rows in the order p
Permuted(p) == [j \in 1..Len(candidates) |-> candidates[p[j]]]

(* C30: for every order of the candidate array the call returns the same   *)
(* distance for every query point, and when a single candidate is nearest  *)
(* to the query point the index returned is that of the same point at its  *)
(* new place.                                                              *)
C30_PermutationInvariant ==
    Returned =>
        \A p \in Perms(Len(candidates)) :
            LET r == get_nearest(src_points, Permuted(p), k_neighbors)
            IN  /\ r.err = "none"
                /\ r.closest_dist = closest_dist
                /\ \A i \in 1..Len(closest) :
                      Cardinality(NearestSet(i)) = 1
                          => p[r.closest[i] + 1] = closest[i] + 1

\* C30 witness: a call has returned on three candidates or more of which a
\* single one, not the first, is nearest to a query point, and on
\* candidates of which two are nearest to a query point
C30_Witness ==
    /\ Returned
    /\ Len(candidates) >= 3
    /\ \E i, j \in 1..Len(closest) :
          /\ Cardinality(NearestSet(i)) = 1
          /\ closest[i] > 0
          /\ Cardinality(NearestSet(j)) > 1


\* two points of the same longitude, one on the equator and the other a
\* hundredth of a degree of latitude from it
EquatorPair(p, q) ==
    /\ p.x = q.x
    /\ \/ p.y = 0 /\ q.y \in {-1, 1}
       \/ q.y = 0 /\ p.y \in {-1, 1}

(* C25: a query point matched to a candidate of the same longitude, one of *)
(* the two on the equator and the other a hundredth of a degree of         *)
(* latitude from it, is reported at a distance within 1% of 1112 m, the    *)
(* haversine distance of 0.01 degrees of arc on the sphere of the Earth's  *)
(* radius (about 1113 m).                                                  *)
C25_EquatorHundredth ==
    (Matched /\ return_dist) =>
        \A i \in 1..Len(closest_points) :
            EquatorPair(left_gdf[i].geom, closest_points[i].geom)
                => /\ closest_points[i].distance * 100 >= 1112 * 99
                   /\ closest_points[i].distance * 100 <= 1112 * 101


=============================================================================
